---- MODULE Spec2Model ----
(***************************************************************************)
(* Model of two codecs of twilight:                                        *)
(*   - PermissionOverwrite's Serialize / Deserialize implementations       *)
(*     (model/src/channel/permission_overwrite.rs);                        *)
(*   - parse_gateway_event in its serde_json and simd-json builds          *)
(*     (gateway/src/shard/json.rs).                                        *)
(* JSON text is modelled at the level of tokens: an object is the sequence *)
(* of its members in the order they appear in the text, a string is the    *)
(* sequence of its characters.  Whitespace is not modelled.                *)
(***************************************************************************)
EXTENDS Integers, Sequences, FiniteSets, TLC

VARIABLES
    \* ---- PermissionOverwrite codec ----
    pc,        \* position of the codec's caller
    origin,    \* where the wire text came from: "encode" or "network"
    value,     \* the PermissionOverwrite handed to serialize
    wire,      \* the wire text (sequence of members)
    res,       \* result of deserialize
    wire2,     \* the text produced by serializing the deserialized value
    \* ---- parse_gateway_event ----
    engine,    \* the engine compiled in (a cfg feature, fixed per build)
    gpc,       \* position of parse_gateway_event's caller
    header,    \* [op, seq, event_type] extracted before the call
    received,  \* the message text as the transport delivered it
    json,      \* the buffer behind `json: &mut str`
    gres,      \* result of parse_gateway_event
    log,       \* records emitted with tracing::debug!
    callerRead \* what the caller read from the buffer after the call

codecVars == <<pc, origin, value, wire, res, wire2>>
gatewayVars == <<engine, gpc, header, received, json, gres, log, callerRead>>
vars == <<pc, origin, value, wire, res, wire2,
          engine, gpc, header, received, json, gres, log, callerRead>>

----------------------------------------------------------------------------
(* Bounds *)

\* Width, in bits, that the model gives to the ids (u64 in the code).
IdBits == 4
\* Width, in bits, that the model gives to the Permissions bit set.
PermBits == 1
\* Longest id string the network delivers.
MaxIdLen == 2
\* Longest gateway message, in tokens.
MaxTextLen == 5

IdMax == 2^IdBits - 1
PermMax == 2^PermBits - 1

----------------------------------------------------------------------------
(* Decimal text *)

Digits == <<"0", "1", "2", "3", "4", "5", "6", "7", "8", "9">>

IsDigit(c) == \E i \in 1..10 : Digits[i] = c

DigitVal(c) == (CHOOSE i \in 1..10 : Digits[i] = c) - 1

\* Display for an unsigned integer: decimal, no sign, no leading zeros.
RECURSIVE ToDecimal(_)
ToDecimal(n) ==
    IF n < 10 THEN <<Digits[n + 1]>>
    ELSE ToDecimal(n \div 10) \o <<Digits[(n % 10) + 1]>>

\* Accumulation loop of str::parse for an unsigned type of maximum `max`:
\* -1 stands for InvalidDigit, -2 for PosOverflow.
RECURSIVE ParseDigits(_, _, _)
ParseDigits(s, acc, max) ==
    IF s = <<>> THEN acc
    ELSE IF ~IsDigit(Head(s)) THEN -1
    ELSE IF acc * 10 + DigitVal(Head(s)) > max THEN -2
    ELSE ParseDigits(Tail(s), acc * 10 + DigitVal(Head(s)), max)

\* str::parse::<uN>(): an optional leading "+", then at least one digit.
ParseUnsigned(s, max) ==
    LET body == IF s # <<>> /\ Head(s) = "+" THEN Tail(s) ELSE s
        n == ParseDigits(body, 0, max)
    IN  IF s = <<>> THEN [ok |-> FALSE, n |-> 0, cause |-> "Empty"]
        ELSE IF body = <<>> THEN [ok |-> FALSE, n |-> 0, cause |-> "InvalidDigit"]
        ELSE IF n = -1 THEN [ok |-> FALSE, n |-> 0, cause |-> "InvalidDigit"]
        ELSE IF n = -2 THEN [ok |-> FALSE, n |-> 0, cause |-> "PosOverflow"]
        ELSE [ok |-> TRUE, n |-> n, cause |-> "none"]

----------------------------------------------------------------------------
(* PermissionOverwrite *)

Member(id) == [tag |-> "Member", id |-> id]
Role(id) == [tag |-> "Role", id |-> id]

PermissionOverwriteType == {Member(i) : i \in 0..IdMax} \cup {Role(i) : i \in 0..IdMax}

PermissionOverwrite ==
    [allow : 0..PermMax, deny : 0..PermMax, kind : PermissionOverwriteType]

\* No PermissionOverwrite at all (an Err result holds none).
NoValue == [allow |-> 0, deny |-> 0, kind |-> [tag |-> "None", id |-> 0]]

\* Members of the wire object.
StrMember(k, s) == [key |-> k, t |-> "str", s |-> s, n |-> 0]
NumMember(k, n) == [key |-> k, t |-> "num", s |-> <<>>, n |-> n]

\* PermissionOverwriteTypeName as u8
MemberRepr == 1
RoleRepr == 0

Ok(v) == [ok |-> TRUE, err |-> "none", value |-> v]
Err(e) == [ok |-> FALSE, err |-> e, value |-> NoValue]

\* Permissions' Serialize: the bits as a decimal string.
SerializePermissions(p) == ToDecimal(p)
\* UserId's / RoleId's Serialize: the id as a decimal string.
SerializeId(id) == ToDecimal(id)

SerializeRoleAsMember(x) ==
    << StrMember("allow", SerializePermissions(x.allow)),
       StrMember("deny", SerializePermissions(x.deny)),
       StrMember("id", SerializeId(x.kind.id)),
       NumMember("type", MemberRepr) >>

\* impl Serialize for PermissionOverwrite
Serialize(x) ==
    << StrMember("allow", SerializePermissions(x.allow)),
       StrMember("deny", SerializePermissions(x.deny)) >>
    \o
    ( IF x.kind.tag = "Member"
      THEN << StrMember("id", SerializeId(x.kind.id)), NumMember("type", MemberRepr) >>
      ELSE << StrMember("id", SerializeId(x.kind.id)), NumMember("type", RoleRepr) >> )

\* The members of object w under key k, in text order.
Field(w, k) == SelectSeq(w, LAMBDA m : m.key = k)

TypeNameDefaultsToRole(n) ==
    IF n \notin 0..255 THEN "invalid"
    ELSE IF n = MemberRepr THEN "Member"
    ELSE "Role"

\* Deserialize_repr for PermissionOverwriteTypeName (#[repr(u8)]):
\* the number must be a u8 and one of the discriminants.
TypeNameFromRepr(n) ==
    IF n \notin 0..255 THEN "invalid"
    ELSE IF n = MemberRepr THEN "Member"
    ELSE IF n = RoleRepr THEN "Role"
    ELSE "invalid"

\* Permissions' Deserialize: a decimal string.
DeserializePermissions(m) ==
    IF m.t # "str" THEN [ok |-> FALSE, n |-> 0, cause |-> "invalid type"]
    ELSE ParseUnsigned(m.s, PermMax)

\* #[derive(Deserialize)] for PermissionOverwriteData: the first member (in
\* text order) that is a duplicate or fails to decode ends the decoding, and a
\* field that never appeared is reported at the end.
RECURSIVE DataErrorFrom(_, _, _)
DataErrorFrom(w, i, seen) ==
    IF i > Len(w) THEN
        IF \E k \in {"allow", "deny", "id", "type"} : k \notin seen
        THEN "missing field" ELSE "none"
    ELSE LET m == w[i] IN
        IF m.key \notin {"allow", "deny", "id", "type"}
            THEN DataErrorFrom(w, i + 1, seen)
        ELSE IF m.key \in seen THEN "duplicate field"
        ELSE IF m.key \in {"allow", "deny"} /\ ~DeserializePermissions(m).ok
            THEN DeserializePermissions(m).cause
        ELSE IF m.key = "id" /\ m.t # "str" THEN "invalid type"
        ELSE IF m.key = "type" /\ m.t # "num" THEN "invalid type"
        ELSE IF m.key = "type" /\ TypeNameFromRepr(m.n) = "invalid" THEN "invalid value"
        ELSE DataErrorFrom(w, i + 1, seen \cup {m.key})

PermissionOverwriteData(w) ==
    LET e == DataErrorFrom(w, 1, {}) IN
    IF e # "none" THEN [ok |-> FALSE, err |-> e, allow |-> 0, deny |-> 0, id |-> <<>>, kind |-> "invalid"]
    ELSE [ok |-> TRUE, err |-> "none",
          allow |-> DeserializePermissions(Field(w, "allow")[1]).n,
          deny |-> DeserializePermissions(Field(w, "deny")[1]).n,
          id |-> Field(w, "id")[1].s,
          kind |-> TypeNameFromRepr(Field(w, "type")[1].n)]

DeserializeSwapsFlags(w) ==
    LET data == PermissionOverwriteData(w)
        id == ParseUnsigned(data.id, IdMax)
    IN  IF ~data.ok THEN Err(data.err)
        ELSE IF ~id.ok THEN Err(id.cause)
        ELSE Ok([allow |-> data.deny, deny |-> data.allow,
                 kind |-> IF data.kind = "Member" THEN Member(id.n) ELSE Role(id.n)])

DeserializeSwapsKinds(w) ==
    LET data == PermissionOverwriteData(w)
        id == ParseUnsigned(data.id, IdMax)
    IN  IF ~data.ok THEN Err(data.err)
        ELSE IF ~id.ok THEN Err(id.cause)
        ELSE Ok([allow |-> data.allow, deny |-> data.deny,
                 kind |-> IF data.kind = "Member" THEN Role(id.n) ELSE Member(id.n)])

DeserializeBadIdIsZero(w) ==
    LET data == PermissionOverwriteData(w)
        id == ParseUnsigned(data.id, IdMax)
    IN  IF ~data.ok THEN Err(data.err)
        ELSE Ok([allow |-> data.allow, deny |-> data.deny,
                 kind |-> IF data.kind = "Member" THEN Member(id.n) ELSE Role(id.n)])

\* impl Deserialize for PermissionOverwrite
Deserialize(w) ==
    LET data == PermissionOverwriteData(w)
        id == ParseUnsigned(data.id, IdMax)
    IN  IF ~data.ok THEN Err(data.err)
        ELSE IF data.kind = "Member" THEN
            IF ~id.ok THEN Err(id.cause)
            ELSE Ok([allow |-> data.allow, deny |-> data.deny, kind |-> Member(id.n)])
        ELSE
            IF ~id.ok THEN Err(id.cause)
            ELSE Ok([allow |-> data.allow, deny |-> data.deny, kind |-> Role(id.n)])

----------------------------------------------------------------------------
(* Texts the network may deliver for a PermissionOverwrite *)

IdChars == {"0", "1", "7", "9", "+", "a"}

RECURSIVE StringsUpTo(_, _)
StringsUpTo(chars, n) ==
    IF n = 0 THEN {<<>>}
    ELSE LET shorter == StringsUpTo(chars, n - 1)
         IN  shorter \cup {<<c>> \o s : c \in chars, s \in {t \in shorter : Len(t) = n - 1}}

IdStrings == StringsUpTo(IdChars, MaxIdLen)
PermStrings == {<<"0">>, <<"1">>, <<"x">>}
TypeMembers == {NumMember("type", n) : n \in {-1, 0, 1, 2, 9, 256}} \cup {StrMember("type", <<"1">>)}

\* The four members in the order the codec writes them, in another order,
\* with one missing, or with one twice.
Canonical(a, d, i, t) ==
    <<StrMember("allow", a), StrMember("deny", d), StrMember("id", i), t>>
Reversed(a, d, i, t) ==
    <<t, StrMember("id", i), StrMember("deny", d), StrMember("allow", a)>>
WithoutId(t) ==
    <<StrMember("allow", <<"1">>), StrMember("deny", <<"0">>), t>>
WithIdTwice(i, t) ==
    <<StrMember("allow", <<"1">>), StrMember("deny", <<"0">>),
      StrMember("id", i), t, StrMember("id", <<"1">>)>>
WithNumericId(t) ==
    <<StrMember("allow", <<"1">>), StrMember("deny", <<"0">>), NumMember("id", 1), t>>
WithExtraMember(i, t) ==
    <<StrMember("allow", <<"1">>), StrMember("extra", <<"1">>),
      StrMember("deny", <<"0">>), StrMember("id", i), t>>

WireInputs ==
    {Canonical(a, d, i, t) : a \in PermStrings, d \in PermStrings, i \in IdStrings, t \in TypeMembers}
    \cup {Reversed(a, d, i, t) : a \in PermStrings, d \in PermStrings, i \in IdStrings, t \in TypeMembers}
    \cup {WithoutId(t) : t \in TypeMembers}
    \cup {WithIdTwice(i, t) : i \in IdStrings, t \in TypeMembers}
    \cup {WithNumericId(t) : t \in TypeMembers}
    \cup {WithExtraMember(i, t) : i \in IdStrings, t \in TypeMembers}

----------------------------------------------------------------------------
(* The codec's callers *)

CodecInit ==
    /\ pc = "idle"
    /\ origin = "none"
    /\ value = NoValue
    /\ wire = <<>>
    /\ res = Err("none")
    /\ wire2 = <<>>

\* A caller builds a PermissionOverwrite and serializes it.
SerializeValue ==
    /\ pc = "idle"
    /\ \E x \in PermissionOverwrite :
        /\ value' = x
        /\ wire' = Serialize(x)
    /\ origin' = "encode"
    /\ pc' = "text"
    /\ UNCHANGED <<res, wire2>>

\* The network delivers a text.
ReceiveText ==
    /\ pc = "idle"
    /\ \E w \in WireInputs : wire' = w
    /\ origin' = "network"
    /\ pc' = "text"
    /\ UNCHANGED <<value, res, wire2>>

\* The text is deserialized.
DeserializeText ==
    /\ pc = "text"
    /\ res' = Deserialize(wire)
    /\ pc' = "decoded"
    /\ UNCHANGED <<origin, value, wire, wire2>>

\* The deserialized value is serialized again.
ReserializeValue ==
    /\ pc = "decoded"
    /\ res.ok
    /\ wire2' = Serialize(res.value)
    /\ pc' = "reencoded"
    /\ UNCHANGED <<origin, value, wire, res>>

CodecReset ==
    /\ pc \in {"decoded", "reencoded"}
    /\ pc' = "idle"
    /\ origin' = "none"
    /\ value' = NoValue
    /\ wire' = <<>>
    /\ res' = Err("none")
    /\ wire2' = <<>>

----------------------------------------------------------------------------
(* Gateway messages.  A text is a sequence of tokens:                         *)
(*   "{" "}"  an object's braces        "d"  the key "d" with its colon     *)
(*   "e"      a string holding an escape                                    *)
(* and "u" is the bytes an "e" string becomes once it is unescaped in place. *)

Tokens == {"{", "}", "d", "e"}

Texts == StringsUpTo(Tokens, MaxTextLen)

None == [some |-> FALSE, v |-> "none"]
Some(v) == [some |-> TRUE, v |-> v]

\* Header values the pre-scan hands over: op, sequence, event_type.
DispatchOp == 0
HeartbeatAckOp == 11

Headers ==
    {[op |-> DispatchOp, seq |-> s, event_type |-> t] :
        s \in {None, Some("5")}, t \in {None, Some("READY"), Some("EXAMPLE")}}
    \cup {[op |-> HeartbeatAckOp, seq |-> None, event_type |-> None]}

\* JSON syntax: where the value starting at s[i] ends (the index after it),
\* or 0 when no value starts there.
RECURSIVE ParseValue(_, _), ParseMembers(_, _)
ParseValue(s, i) ==
    IF i > Len(s) THEN 0
    ELSE IF s[i] = "e" THEN i + 1
    ELSE IF s[i] = "{" THEN ParseMembers(s, i + 1)
    ELSE 0
ParseMembers(s, i) ==
    IF i > Len(s) THEN 0
    ELSE IF s[i] = "}" THEN i + 1
    ELSE IF s[i] = "d" THEN
        LET j == ParseValue(s, i + 1) IN IF j = 0 THEN 0 ELSE ParseMembers(s, j)
    ELSE 0

\* The whole text is one JSON value.
IsJsonDocument(s) == ParseValue(s, 1) = Len(s) + 1

\* The values of the members of the object doc, from member position i on.
RECURSIVE MemberValues(_, _)
MemberValues(doc, i) ==
    IF i > Len(doc) \/ doc[i] # "d" THEN <<>>
    ELSE LET j == ParseValue(doc, i + 1)
         IN  <<SubSeq(doc, i + 1, j - 1)>> \o MemberValues(doc, j)

\* A value as the engines hand it to a visitor: strings are unescaped.
Unescaped(v) == [i \in 1..Len(v) |-> IF v[i] = "e" THEN "E" ELSE v[i]]

NoEvent == [kind |-> "none", seq |-> None, t |-> None, d |-> <<>>]
EventOk(e) == [ok |-> TRUE, cause |-> "none", event |-> e]
EventErr(c) == [ok |-> FALSE, cause |-> c, event |-> NoEvent]

\* GatewayEventDeserializer::new(op, sequence, event_type).deserialize(..) on
\* one complete JSON value: the header selects the event that the body "d"
\* is decoded into.
GatewayEventDeserializer(h, doc) ==
    LET bodies == MemberValues(doc, 2) IN
    IF doc[1] # "{" THEN EventErr("invalid type")
    ELSE IF h.op = HeartbeatAckOp THEN
        EventOk([kind |-> "HeartbeatAck", seq |-> None, t |-> None, d |-> <<>>])
    ELSE IF h.op # DispatchOp THEN EventErr("unknown opcode")
    ELSE IF Len(bodies) = 0 THEN EventErr("missing field d")
    ELSE IF Len(bodies) > 1 THEN EventErr("duplicate field d")
    ELSE IF ~h.seq.some THEN EventErr("missing field s")
    ELSE IF ~h.event_type.some THEN EventErr("missing field t")
    ELSE IF h.event_type.v # "READY" THEN EventErr("unknown variant")
    ELSE IF bodies[1][1] # "{" THEN EventErr("invalid type")
    ELSE EventOk([kind |-> "Dispatch", seq |-> h.seq, t |-> h.event_type,
                  d |-> Unescaped(bodies[1])])

\* GatewayEventParsingError and its source()
Deserializing == [ok |-> FALSE, err |-> "Deserializing", source |-> "JsonError", event |-> NoEvent]
PayloadInvalid == [ok |-> FALSE, err |-> "PayloadInvalid", source |-> "none", event |-> NoEvent]
Parsed(e) == [ok |-> TRUE, err |-> "none", source |-> "none", event |-> e]
NoResult == [ok |-> FALSE, err |-> "none", source |-> "none", event |-> NoEvent]

\* What an in-place decode may leave in the buffer: any of the strings
\* holding an escape may have been overwritten with its unescaped bytes.
RECURSIVE Rewrites(_)
Rewrites(s) ==
    IF s = <<>> THEN {<<>>}
    ELSE {<<h>> \o r : h \in (IF Head(s) = "e" THEN {"e", "u"} ELSE {Head(s)}),
                       r \in Rewrites(Tail(s))}

\* parse_gateway_event, #[cfg(not(feature = "simd-json"))].  The serde_json
\* Deserializer reads one value from the start of the text as the visitor
\* asks for it; nothing asks it whether the text ends there.
ParseGatewayEventSerde(h, text) ==
    LET j == ParseValue(text, 1)
        r == GatewayEventDeserializer(h, SubSeq(text, 1, j - 1))
    IN  IF j = 0 THEN [res |-> Deserializing, log |-> <<text>>]
        ELSE IF ~r.ok THEN [res |-> Deserializing, log |-> <<text>>]
        ELSE [res |-> Parsed(r.event), log |-> <<>>]

ParseGatewayEventSimdDropsSequence(h, text, after) ==
    LET r == GatewayEventDeserializer([h EXCEPT !.seq = None], text)
    IN  IF ~IsJsonDocument(text) THEN [res |-> PayloadInvalid, log |-> <<>>]
        ELSE IF ~r.ok THEN [res |-> Deserializing, log |-> <<after>>]
        ELSE [res |-> Parsed(r.event), log |-> <<>>]

\* parse_gateway_event, #[cfg(feature = "simd-json")].  Deserializer::from_slice
\* parses the whole text, in place; `after` is the buffer as the decode left
\* it, which is what the closure of map_err formats.
ParseGatewayEventSimd(h, text, after) ==
    LET r == GatewayEventDeserializer(h, text)
    IN  IF ~IsJsonDocument(text) THEN [res |-> PayloadInvalid, log |-> <<>>]
        ELSE IF ~r.ok THEN [res |-> Deserializing, log |-> <<after>>]
        ELSE [res |-> Parsed(r.event), log |-> <<>>]

GatewayIdle ==
    /\ gpc = "idle"
    /\ header = [op |-> DispatchOp, seq |-> None, event_type |-> None]
    /\ received = <<>>
    /\ json = <<>>
    /\ gres = NoResult
    /\ log = <<>>
    /\ callerRead = <<>>

\* The transport delivers a complete message with its pre-scanned header.
ReceiveMessage ==
    /\ gpc = "idle"
    /\ \E h \in Headers, text \in Texts :
        /\ header' = h
        /\ received' = text
        /\ json' = text
    /\ gpc' = "ready"
    /\ UNCHANGED <<engine, gres, log, callerRead>>

\* The caller calls parse_gateway_event(op, sequence, event_type, &mut json)
\* of a build without the simd-json feature.
CallSerde ==
    /\ gpc = "ready"
    /\ engine = "serde_json"
    /\ gres' = ParseGatewayEventSerde(header, json).res
    /\ log' = ParseGatewayEventSerde(header, json).log
    /\ gpc' = "returned"
    /\ UNCHANGED <<engine, header, received, json, callerRead>>

\* The same call in a build with the simd-json feature.
CallSimd ==
    /\ gpc = "ready"
    /\ engine = "simd_json"
    /\ \E after \in Rewrites(json) :
        /\ json' = after
        /\ gres' = ParseGatewayEventSimd(header, json, after).res
        /\ log' = ParseGatewayEventSimd(header, json, after).log
    /\ gpc' = "returned"
    /\ UNCHANGED <<engine, header, received, callerRead>>

\* `json: &mut str` is a borrow that ends with the call: the caller still
\* owns the buffer and can read it.
CallerReadsBuffer ==
    /\ gpc = "returned"
    /\ callerRead' = json
    /\ gpc' = "read"
    /\ UNCHANGED <<engine, header, received, json, gres, log>>

\* The caller drops the buffer and waits for the next message.
NextMessage ==
    /\ gpc \in {"returned", "read"}
    /\ gpc' = "idle"
    /\ header' = [op |-> DispatchOp, seq |-> None, event_type |-> None]
    /\ received' = <<>>
    /\ json' = <<>>
    /\ gres' = NoResult
    /\ log' = <<>>
    /\ callerRead' = <<>>
    /\ UNCHANGED engine

Init == CodecInit /\ GatewayIdle /\ engine = "serde_json"

Next ==
    \/ SerializeValue /\ UNCHANGED gatewayVars
    \/ ReceiveText /\ UNCHANGED gatewayVars
    \/ DeserializeText /\ UNCHANGED gatewayVars
    \/ ReserializeValue /\ UNCHANGED gatewayVars
    \/ CodecReset /\ UNCHANGED gatewayVars

Spec == Init /\ [][Next]_vars

\* The gateway, in either build.
InitGateway == CodecInit /\ GatewayIdle /\ engine \in {"serde_json", "simd_json"}

NextGateway ==
    \/ ReceiveMessage /\ UNCHANGED codecVars
    \/ CallSerde /\ UNCHANGED codecVars
    \/ CallSimd /\ UNCHANGED codecVars
    \/ CallerReadsBuffer /\ UNCHANGED codecVars
    \/ NextMessage /\ UNCHANGED codecVars

SpecGateway == InitGateway /\ [][NextGateway]_vars

----------------------------------------------------------------------------
(* Properties of the PermissionOverwrite codec *)

\* The wire text holds exactly one member under key k.
HasOne(k) == Len(Field(wire, k)) = 1
TheMember(k) == Field(wire, k)[1]
Decoded == pc \in {"decoded", "reencoded"}

\* C1: deserializing what serialize produced for a valid PermissionOverwrite
\* succeeds and yields an equal value (same flags, same variant, same id).
C1_RoundTrip ==
    (origin = "encode" /\ Decoded) => (res.ok /\ res.value = value)

C1_Witness ==
    /\ origin = "encode" /\ pc = "decoded"
    /\ value.kind.tag = "Role" /\ value.kind.id >= 10 /\ value.allow = 1
    /\ res.ok /\ res.value = value

\* C2: serializing the result of deserializing a text that serialize produced
\* gives the same text; the keys come in the order allow, deny, id, type, with
\* allow, deny and id as decimal strings and type as a bare integer.
C2_ByteStable ==
    /\ (origin = "encode" /\ pc = "reencoded") => wire2 = wire
    /\ (origin = "encode" /\ pc # "idle") =>
        /\ [i \in 1..Len(wire) |-> wire[i].key] = <<"allow", "deny", "id", "type">>
        /\ [i \in 1..Len(wire) |-> wire[i].t] = <<"str", "str", "str", "num">>
        /\ \A i \in 1..3 : \A j \in 1..Len(wire[i].s) : IsDigit(wire[i].s[j])
        /\ wire[4].n \in {0, 1}

C2_Witness ==
    /\ origin = "encode" /\ pc = "reencoded"
    /\ value.kind.tag = "Member" /\ value.kind.id >= 10
    /\ value.allow # value.deny
    /\ wire2 = wire

\* C3: a wire type that is an integer other than 0 or 1 makes deserialize fail,
\* whatever allow, deny and id are; no PermissionOverwrite is returned.
C3_UnknownTypeFails ==
    (Decoded /\ \E i \in 1..Len(wire) :
                    wire[i].key = "type" /\ wire[i].t = "num" /\ wire[i].n \notin {0, 1})
        => (~res.ok /\ res.err # "none" /\ res.value = NoValue)

C3_Witness ==
    /\ pc = "decoded" /\ origin = "network"
    /\ wire = <<StrMember("allow", <<"1">>), StrMember("deny", <<"0">>),
                StrMember("id", <<"1", "0">>), NumMember("type", 9)>>
    /\ ~res.ok /\ res.err = "invalid value"

\* C4: type 0 is Role and type 1 is Member, in both directions: deserialize
\* wraps the parsed id in the variant the type selects, serialize emits the
\* type of the variant it is given.
C4_DiscriminantMapping ==
    /\ (Decoded /\ res.ok) =>
        /\ HasOne("type") /\ HasOne("id")
        /\ TheMember("type").n = 0 =>
                res.value.kind = Role(ParseUnsigned(TheMember("id").s, IdMax).n)
        /\ TheMember("type").n = 1 =>
                res.value.kind = Member(ParseUnsigned(TheMember("id").s, IdMax).n)
        /\ TheMember("type").n \in {0, 1}
    /\ (origin = "encode" /\ pc # "idle") =>
        /\ value.kind.tag = "Member" => wire[4] = NumMember("type", 1)
        /\ value.kind.tag = "Role" => wire[4] = NumMember("type", 0)
    /\ pc = "reencoded" =>
        /\ res.value.kind.tag = "Member" => wire2[4] = NumMember("type", 1)
        /\ res.value.kind.tag = "Role" => wire2[4] = NumMember("type", 0)

C4_Witness ==
    /\ origin = "network" /\ pc = "reencoded"
    /\ wire[1].key = "type" /\ wire[1].n = 0
    /\ HasOne("id")
    /\ TheMember("id").s = <<"+", "7">>
    /\ res.value.kind = Role(7)
    /\ wire2[4] = NumMember("type", 0)

\* C10: with type 0 or 1, an id string that does not parse as an unsigned
\* integer makes deserialize fail and return no value, and the error is the
\* parse's cause when the rest of the text decodes; when deserialize succeeds
\* the wrapped id is the integer value of the id string.
C10_IdParse ==
    /\ (Decoded /\ HasOne("type") /\ HasOne("id")
            /\ TheMember("type").t = "num" /\ TheMember("type").n \in {0, 1}
            /\ TheMember("id").t = "str"
            /\ ~ParseUnsigned(TheMember("id").s, IdMax).ok)
        => /\ ~res.ok /\ res.value = NoValue
           /\ PermissionOverwriteData(wire).ok =>
                res.err = ParseUnsigned(TheMember("id").s, IdMax).cause
    /\ (Decoded /\ res.ok)
        => /\ ParseUnsigned(TheMember("id").s, IdMax).ok
           /\ res.value.kind.id = ParseUnsigned(TheMember("id").s, IdMax).n

C10_Witness ==
    /\ pc = "decoded" /\ origin = "network"
    /\ HasOne("type") /\ HasOne("id")
    /\ TheMember("type").n = 0
    /\ TheMember("id").s = <<"9", "9">>
    /\ wire[1].key = "allow"
    /\ ~res.ok /\ res.err = "PosOverflow" /\ res.value = NoValue

----------------------------------------------------------------------------
(* Properties of parse_gateway_event *)

Returned == gpc \in {"returned", "read"}

\* The text is a JSON document whose body is valid for the event that the
\* header selects.
ValidEnvelope == IsJsonDocument(received) /\ GatewayEventDeserializer(header, received).ok

C6_InvalidTextIsDeserializing ==
    (Returned /\ ~IsJsonDocument(received)) =>
        (~gres.ok /\ gres.err = "Deserializing" /\ gres.source = "JsonError"
            /\ gres.event = NoEvent)

\* C7: in the simd-json build the caller never reads the buffer after the
\* in-place decode has rewritten it.
C7_NoReadAfterInPlaceDecode ==
    ~(engine = "simd_json" /\ gpc = "read" /\ callerRead # received)

\* C8: in each build, a payload that is not valid JSON gives PayloadInvalid and
\* a payload that fails to deserialize gives Deserializing; Deserializing
\* exposes its JSON error as source() and PayloadInvalid exposes none.
C8_DocumentedErrors ==
    Returned =>
        /\ ~IsJsonDocument(received) => gres = PayloadInvalid
        /\ (IsJsonDocument(received) /\ ~GatewayEventDeserializer(header, received).ok)
                => gres = Deserializing
        /\ gres.err = "Deserializing" => gres.source = "JsonError"
        /\ gres.err = "PayloadInvalid" => gres.source = "none"

\* C9: whenever parse_gateway_event returns an error, in either build, one
\* debug record was emitted and it holds the text as it was received; on
\* success none was emitted.
C9_ErrorLogsReceivedText ==
    Returned =>
        /\ ~gres.ok => log = <<received>>
        /\ gres.ok => log = <<>>

====
